---- MODULE Spec2Model ----
(***************************************************************************)
(* A model of src/audio/mic_worker.py: the MicWorker ring buffer, the      *)
(* capture callback and the run_loop supervisor.                           *)
(*                                                                         *)
(* Time is counted in ticks of 10 ms (TicksPerSecond ticks per second), so *)
(* that sleep(0.02), sleep(0.25), sleep(0.5) and the 1.5 s stall limit are *)
(* whole numbers.  Sample rates are in samples per second.  A sleep takes  *)
(* exactly its duration and every other statement takes no time.           *)
(*                                                                         *)
(* Strings that the code inspects (the callback status) are sequences of   *)
(* one-character strings; an exception is the name of its class.           *)
(***************************************************************************)
EXTENDS Integers, Sequences, FiniteSets, TLC

VARIABLES
    \* ---- environment
    clock,              \* time.time(), in ticks
    device_default_sr,  \* sd.query_devices(id)["default_samplerate"]
    \* ---- MicWorker fields (__init__, lines 40-59)
    sr_arg,             \* the constructor's sr argument ("None" or a rate)
    window_sec,         \* self.window_sec, in ticks
    sr,                 \* self.sr
    state,              \* self.state : SirenState
    _stop,              \* self._stop
    _need,              \* self._need
    _buf,               \* self._buf (a sequence; index i of the code is i+1)
    _w,                 \* self._w
    _meter_rms,         \* self._meter_rms
    \* ---- run_loop's frame (lines 136-181)
    pc,                 \* the supervisor's position
    stream,             \* the local `stream`: "None" or the session's state
    last_run,           \* the local last_run
    now,                \* the local now
    audio,              \* the local audio (the last window read)
    exc,                \* the exception being handled ("" when none)
    \* ---- one _callback / _write_ring invocation in flight (lines 69-111)
    cb_pc, cb_x,
    cb_status,          \* the status of the latest _callback invocation
    \* ---- one _read_latest_window invocation in flight (lines 85-94)
    rd_pc, rd_start, rd_cond,
    \* ---- history variables (not program state)
    hist,               \* every sample handed to _write_ring, in order
    read_fresh,         \* audio was read and nothing was written since
    rd_seen,            \* the cursor values _w took during the read in flight
    rd_buf,             \* the buffer as it was when the read copied from it
    cb_raised,          \* an exception left _callback
    n_cb,               \* the number of _callback invocations so far
    n_sessions,         \* the number of streams _open_stream has returned
    started_ts,         \* the clock when the current stream was started
    stops, closes,      \* stop() and close() calls made on the current stream
    orphans,            \* streams dropped by run_loop without a close()
    infer_out,          \* what the infer collaborator returns for `audio`
    left_by,            \* how the latest try body was left: "stall", "error", "stop"
    slept,              \* the ticks run_loop slept in backoff since then
    prev_read_ts,       \* the clock at the latest window extraction (0: none yet)
    rms_hist            \* the stream and the block rms of every _callback so far

vars == << clock, device_default_sr, sr_arg, window_sec, sr, state, _stop, _need,
           _buf, _w, _meter_rms, pc, stream, last_run, now, audio, exc,
           cb_pc, cb_x, cb_status, rd_pc, rd_start, rd_cond,
           hist, read_fresh, rd_seen, rd_buf, cb_raised, n_cb, n_sessions, started_ts,
           stops, closes, orphans, infer_out, left_by, slept, prev_read_ts,
           rms_hist >>

\* ------------------------------------------------------------------ bounds
\* The largest number of samples written in the ring-buffer specification.
MaxWritten == 20
\* The largest number of samples written while a read runs concurrently.
MaxRaceWritten == 7
\* The clock when the worker is built (time.time() is far from 0.0).
Epoch == 1000
\* The largest number of _callback invocations.
MaxCallbacks == 2
\* The largest number of frames in one callback block.
MaxFrames == 6
\* The longest time run_loop is followed for, in ticks.
MaxElapsed == 180
\* A started stream delivers callbacks for at most this many ticks, and then
\* stalls.
MaxLive == 2
\* The largest number of streams run_loop opens.
MaxSessions == 2
\* The ticks per second of the model's clock (1 tick = 10 ms).
TicksPerSecond == 100

\* ----------------------------------------------------------------- helpers
Min(a, b) == IF a <= b THEN a ELSE b
Max(a, b) == IF a >= b THEN a ELSE b

Zeros(n) == [i \in 1..n |-> 0]

\* Python's s[a:b] for 0 <= a and 0 <= b: the elements a .. min(b, len)-1.
Slice(s, a, b) == SubSeq(s, a + 1, Min(b, Len(s)))

\* numpy's buf[a:b] = v for 0 <= a <= len(buf): the slice has
\* max(0, min(b, len) - a) cells; v must have that many elements, or exactly
\* one (broadcast); anything else raises ValueError.
SetSlice(buf, a, b, v) ==
    LET hi == Min(b, Len(buf))
        k  == Max(0, hi - a)
    IN  IF Len(v) = k
        THEN [buf |-> [i \in 1..Len(buf) |->
                         IF i > a /\ i <= hi THEN v[i - a] ELSE buf[i]],
              err |-> ""]
        ELSE IF Len(v) = 1
        THEN [buf |-> [i \in 1..Len(buf) |->
                         IF i > a /\ i <= hi THEN v[1] ELSE buf[i]],
              err |-> ""]
        ELSE [buf |-> buf, err |-> "ValueError"]

\* ------------------------------------------------- _write_ring (lines 69-83)
\* A plausible slip: a block that crosses the end of the storage loses its
\* wrapped head segment.
WriteRingNoHead(buf, w, x) ==
    LET n == Len(x)  L == Len(buf)  end == w + n
    IN  IF n <= 0 THEN [buf |-> buf, w |-> w, err |-> ""]
        ELSE IF end <= L
        THEN [buf |-> SetSlice(buf, w, end, x).buf, w |-> end % L, err |-> ""]
        ELSE LET first == L - w
                 s1 == SetSlice(buf, w, L, Slice(x, 0, first))
             IN  [buf |-> s1.buf, w |-> end % L, err |-> ""]

\* A plausible slip: after a block that crosses the end of the storage the
\* cursor goes back to the start of the storage.
WriteRingCursorToStart(buf, w, x) ==
    LET n == Len(x)  L == Len(buf)  end == w + n
    IN  IF n <= 0 THEN [buf |-> buf, w |-> w, err |-> ""]
        ELSE IF end <= L
        THEN [buf |-> SetSlice(buf, w, end, x).buf, w |-> end % L, err |-> ""]
        ELSE LET first == L - w
                 s1 == SetSlice(buf, w, L, Slice(x, 0, first))
                 s2 == SetSlice(s1.buf, 0, end - L, Slice(x, first, n))
             IN  [buf |-> s2.buf, w |-> 0, err |-> ""]

\* The buffer, the cursor and the exception (if any) after _write_ring(x)
\* on a buffer buf with cursor w.  A statement that raises leaves the
\* effects of the statements before it.
WriteRing(buf, w, x) ==
    LET n == Len(x)  L == Len(buf)  end == w + n
    IN  IF n <= 0 THEN [buf |-> buf, w |-> w, err |-> ""]
        ELSE IF end <= L
        THEN [buf |-> SetSlice(buf, w, end, x).buf, w |-> end % L, err |-> ""]
        ELSE LET first == L - w
                 s1 == SetSlice(buf, w, L, Slice(x, 0, first))
                 s2 == SetSlice(s1.buf, 0, end - L, Slice(x, first, n))
             IN  IF s1.err # "" THEN [buf |-> buf, w |-> w, err |-> s1.err]
                 ELSE IF s2.err # "" THEN [buf |-> s1.buf, w |-> w, err |-> s2.err]
                 ELSE IF L = 0
                 THEN [buf |-> s2.buf, w |-> w, err |-> "ZeroDivisionError"]
                 ELSE [buf |-> s2.buf, w |-> end % L, err |-> ""]

\* ----------------------------------------- _read_latest_window (lines 85-94)
\* The window (or the exception) _read_latest_window returns when nothing
\* runs between its statements.
ReadLatestWindow(buf, w, need) ==
    LET L == Len(buf)
    IN  IF L = 0 THEN [win |-> <<>>, err |-> "ZeroDivisionError"]
        ELSE LET start == (w - need) % L
             IN  IF start < w
                 THEN [win |-> Slice(buf, start, w), err |-> ""]
                 ELSE [win |-> Slice(buf, start, L) \o Slice(buf, 0, w), err |-> ""]

\* ------------------------------------------------------ __init__ (lines 40-59)
\* The device's default sample rates, and the window lengths (in ticks), that
\* the model draws the configuration from.
Rates == {1, 2, 8}
Windows == {50, 100}
NoRate == <<>>

\* SirenState() with sr_used given (lines 8-19, 51).  A string is a sequence
\* of chunks, the meter a fraction num / 5^exp, db the decibel value of one.
SirenState(sr_used) ==
    [label |-> "traffic", conf |-> 0, consecutive_hits |-> 0, triggered |-> FALSE,
     last_error |-> <<>>, rms |-> [num |-> 0, exp |-> 0], db |-> <<"const", -120, 0>>,
     sr_used |-> sr_used, last_cb_ts |-> 0, overflows |-> 0]

\* int(window_sec * sr), window_sec being ws ticks.
NeedOf(ws, rate) == (ws * rate) \div TicksPerSecond

\* The worker MicWorker(device_id, infer, window_sec=ws/100, sr=sa) builds on a
\* device whose default rate is dsr, before run_loop is called.
Construct(dsr, sa, ws) ==
    LET rate == IF sa = NoRate THEN dsr ELSE sa[1] IN
    /\ device_default_sr = dsr
    /\ sr_arg = sa
    /\ window_sec = ws
    /\ sr = rate
    /\ state = SirenState(rate)
    /\ _stop = FALSE
    /\ _need = NeedOf(ws, rate)
    /\ _buf = Zeros(NeedOf(ws, rate) * 4)
    /\ _w = 0
    /\ _meter_rms = [num |-> 0, exp |-> 0]

\* run_loop not called, no call in flight, nothing recorded.
Idle ==
    /\ clock = Epoch
    /\ pc = "idle" /\ stream = "None" /\ last_run = 0 /\ now = 0
    /\ audio = <<>> /\ exc = ""
    /\ cb_pc = "idle" /\ cb_x = <<>> /\ cb_status = <<>>
    /\ rd_pc = "idle" /\ rd_start = 0 /\ rd_cond = FALSE
    /\ hist = <<>> /\ read_fresh = FALSE /\ rd_seen = {} /\ rd_buf = <<>>
    /\ cb_raised = FALSE
    /\ n_cb = 0 /\ n_sessions = 0 /\ started_ts = 0
    /\ stops = 0 /\ closes = 0 /\ orphans = {} /\ infer_out = << "traffic", 0 >>
    /\ left_by = "" /\ slept = 0 /\ prev_read_ts = 0 /\ rms_hist = <<>>

configVars == << device_default_sr, sr_arg, window_sec >>
stateVars == << sr, state, _stop, _need, _meter_rms >>
ringVars == << _buf, _w >>
supVars == << pc, stream, last_run, now, exc >>
cbVars == << cb_pc, cb_x, cb_status >>
rdVars == << rd_pc, rd_start, rd_cond, rd_seen, rd_buf >>
sessVars == << n_sessions, started_ts, stops, closes, orphans >>
histVars == << left_by, slept, prev_read_ts >>

(***************************************************************************)
(* SpecRing: _write_ring and _read_latest_window called one after another  *)
(* on a freshly built worker (no stream, no second thread).  The samples   *)
(* written are numbered 1, 2, 3, ... so that every one is told apart.      *)
(***************************************************************************)
RingInit ==
    /\ \E dsr \in Rates, ws \in Windows :
          NeedOf(ws, dsr) \in 1..2 /\ Construct(dsr, NoRate, ws)
    /\ Idle

\* self._write_ring(x) for a block of n new samples, n <= capacity.
RingWrite ==
    \E n \in 0..Len(_buf) :
       /\ Len(hist) + n <= MaxWritten
       /\ LET x == [i \in 1..n |-> Len(hist) + i]
              r == WriteRing(_buf, _w, x)
          IN  /\ r.err = ""
              /\ _buf' = r.buf
              /\ _w' = r.w
              /\ hist' = hist \o x
              /\ cb_x' = x
       /\ read_fresh' = FALSE
       /\ UNCHANGED << clock, configVars, histVars, rms_hist, stateVars, supVars, audio,
                       cb_pc, cb_status, rdVars, cb_raised, n_cb, sessVars, infer_out >>

\* audio = self._read_latest_window()
RingRead ==
    LET r == ReadLatestWindow(_buf, _w, _need) IN
    /\ r.err = ""
    /\ audio' = r.win
    /\ read_fresh' = TRUE
    /\ UNCHANGED << clock, configVars, histVars, rms_hist, stateVars, ringVars,
                    supVars, cbVars, rdVars, hist, cb_raised, n_cb, sessVars,
                    infer_out >>

RingNext == RingWrite \/ RingRead

SpecRing == RingInit /\ [][RingNext]_vars

\* The last n elements of s.
LastN(s, n) == SubSeq(s, Len(s) - n + 1, Len(s))

\* C1: a read that follows any sequence of writes (no write in between)
\* returns exactly _need samples: the last _need samples written, in order,
\* preceded by the buffer's initial zeros when fewer were written.
C1_ReadReturnsLastNeed ==
    read_fresh => audio = LastN(Zeros(_need) \o hist, _need)

\* C1's case: a read after the writes have wrapped the buffer, the window
\* itself lying across the end of the storage.
C1_Witness ==
    /\ read_fresh
    /\ Len(hist) > Len(_buf)
    /\ _w > 0 /\ _w < _need
    /\ Len(audio) = _need

\* C14: a write of a block x of n <= capacity samples that crosses the end
\* of the storage (w + n > capacity) leaves the buffer and the cursor as two
\* _write_ring calls do, the first with x[:capacity - w] and the second with
\* the rest; the cursor ends at (w + n) mod capacity, the written cells hold
\* x in order and no other cell changes.
C14_SplitWriteEquivalence ==
    [][ (Len(hist') > Len(hist) /\ _w + Len(cb_x') > Len(_buf)) =>
          LET x == cb_x'
              n == Len(x)
              L == Len(_buf)
              first == L - _w
              a == WriteRing(_buf, _w, Slice(x, 0, first))
              b == WriteRing(a.buf, a.w, Slice(x, first, n))
          IN  /\ a.err = "" /\ b.err = ""
              /\ _buf' = b.buf
              /\ _w' = b.w
              /\ _w' = (_w + n) % L
              /\ Len(_buf') = L
              /\ \A j \in 0..(n - 1) : _buf'[((_w + j) % L) + 1] = x[j + 1]
              /\ \A i \in 0..(L - 1) :
                    (i >= _w + n - L /\ i < _w) => _buf'[i + 1] = _buf[i + 1]
      ]_vars

\* C14's case: the latest block crossed the end of the storage (its cursor
\* ended inside the block) and left cells of an earlier block in place.
C14_Witness ==
    /\ cb_x # <<>>
    /\ _w > 0 /\ _w < Len(cb_x)
    /\ Len(cb_x) < Len(_buf)
    /\ Len(hist) > Len(_buf)

(***************************************************************************)
(* SpecRace: the audio thread runs _write_ring while the supervisor thread *)
(* runs _read_latest_window, one statement at a time.  Neither takes a     *)
(* lock, so the threads interleave between any two statements; the reader  *)
(* reads self._w anew in each statement that names it.                     *)
(***************************************************************************)
RaceInit ==
    /\ \E dsr \in Rates, ws \in Windows :
          NeedOf(ws, dsr) \in 1..2 /\ Construct(dsr, NoRate, ws)
    /\ Idle

raceFrame == << clock, configVars, histVars, rms_hist, stateVars, supVars, cb_raised, n_cb, sessVars,
               infer_out >>

\* _write_ring is entered with a block of n new samples (lines 70-75).
WriterEnter ==
    /\ cb_pc = "idle"
    /\ \E n \in 1..Len(_buf) :
         /\ Len(hist) + n <= MaxRaceWritten
         /\ cb_x' = [i \in 1..n |-> Len(hist) + i]
         /\ hist' = hist \o [i \in 1..n |-> Len(hist) + i]
    /\ cb_pc' = "copy"
    /\ UNCHANGED << cb_status, ringVars, audio, read_fresh, rdVars, raceFrame >>

\* Line 78 (the block fits) or line 81 (the tail segment of a block that wraps).
WriterCopy ==
    /\ cb_pc = "copy"
    /\ LET L == Len(_buf)  end == _w + Len(cb_x) IN
         IF end <= L
         THEN /\ _buf' = SetSlice(_buf, _w, end, cb_x).buf
              /\ cb_pc' = "cursor"
         ELSE /\ _buf' = SetSlice(_buf, _w, L, Slice(cb_x, 0, L - _w)).buf
              /\ cb_pc' = "head"
    /\ UNCHANGED << _w, cb_x, cb_status, hist, audio, read_fresh, rdVars, raceFrame >>

\* Line 82: the wrapped head segment.
WriterHead ==
    /\ cb_pc = "head"
    /\ LET L == Len(_buf)  end == _w + Len(cb_x) IN
         _buf' = SetSlice(_buf, 0, end - L, Slice(cb_x, L - _w, Len(cb_x))).buf
    /\ cb_pc' = "cursor"
    /\ UNCHANGED << _w, cb_x, cb_status, hist, audio, read_fresh, rdVars, raceFrame >>

\* Line 83: self._w = end % L.
WriterCursor ==
    /\ cb_pc = "cursor"
    /\ _w' = (_w + Len(cb_x)) % Len(_buf)
    /\ cb_pc' = "idle"
    /\ cb_x' = <<>>
    /\ rd_seen' = IF rd_pc \in {"cmp", "slice"} THEN rd_seen \cup {_w'} ELSE rd_seen
    /\ UNCHANGED << _buf, cb_status, hist, audio, read_fresh, rd_pc, rd_start,
                    rd_cond, rd_buf, raceFrame >>

\* Lines 89-90: L = self._buf.size; start = (self._w - self._need) % L.
ReaderStart ==
    /\ rd_pc \in {"idle", "ret"}
    /\ rd_start' = (_w - _need) % Len(_buf)
    /\ rd_seen' = {_w}
    /\ rd_pc' = "cmp"
    /\ rd_cond' = FALSE
    /\ audio' = <<>>
    /\ rd_buf' = <<>>
    /\ read_fresh' = FALSE
    /\ UNCHANGED << ringVars, cbVars, hist, raceFrame >>

\* Line 91: if start < self._w.
ReaderCompare ==
    /\ rd_pc = "cmp"
    /\ rd_cond' = (rd_start < _w)
    /\ rd_pc' = "slice"
    /\ UNCHANGED << ringVars, cbVars, hist, audio, read_fresh, rd_start, rd_seen,
                    rd_buf, raceFrame >>

\* Line 92 or line 94: the copy, which reads self._w once more.
ReaderSlice ==
    /\ rd_pc = "slice"
    /\ audio' = IF rd_cond
                THEN Slice(_buf, rd_start, _w)
                ELSE Slice(_buf, rd_start, Len(_buf)) \o Slice(_buf, 0, _w)
    /\ rd_buf' = _buf
    /\ rd_pc' = "ret"
    /\ read_fresh' = TRUE
    /\ UNCHANGED << ringVars, cbVars, hist, rd_start, rd_cond, rd_seen, raceFrame >>

RaceNext ==
    \/ WriterEnter \/ WriterCopy \/ WriterHead \/ WriterCursor
    \/ ReaderStart \/ ReaderCompare \/ ReaderSlice

SpecRace == RaceInit /\ [][RaceNext]_vars

\* C2: a window returned while the callback writes has exactly _need samples
\* and is the run of _need samples that ends at one of the cursor values the
\* buffer had during the read.
C2_WindowAtOneCursor ==
    rd_pc = "ret" =>
        /\ Len(audio) = _need
        /\ \E c \in rd_seen : audio = ReadLatestWindow(rd_buf, c, _need).win

(***************************************************************************)
(* _callback (lines 96-111).                                               *)
(***************************************************************************)
UpperLetters == << "A", "B", "C", "D", "E", "F", "G", "H", "I", "J", "K", "L", "M", "N", "O", "P", "Q", "R", "S", "T", "U", "V", "W", "X", "Y", "Z" >>
LowerLetters == << "a", "b", "c", "d", "e", "f", "g", "h", "i", "j", "k", "l", "m", "n", "o", "p", "q", "r", "s", "t", "u", "v", "w", "x", "y", "z" >>

\* str.lower(), one character at a time.
LowerChar(c) ==
    IF \E i \in 1..Len(UpperLetters) : UpperLetters[i] = c
    THEN LowerLetters[CHOOSE i \in 1..Len(UpperLetters) : UpperLetters[i] = c]
    ELSE c
Lower(s) == [i \in 1..Len(s) |-> LowerChar(s[i])]

\* Python's `pat in s` for strings.
Contains(s, pat) ==
    \E i \in 0..(Len(s) - Len(pat)) : SubSeq(s, i + 1, i + Len(pat)) = pat

Overflow == << "o", "v", "e", "r", "f", "l", "o", "w" >>

\* A plausible slip: the status is matched without .lower().
OverflowInCaseSensitive(s) == Contains(s, Overflow)

\* Line 100: "overflow" in s.lower().
OverflowIn(s) == Contains(Lower(s), Overflow)

\* str(status) for the statuses the audio subsystem hands to the callback;
\* the empty one is falsy (`if status:`).
Statuses ==
    { <<>>,
      << "i", "n", "p", "u", "t", " ", "o", "v", "e", "r", "f", "l", "o", "w" >>,
      << "i", "n", "p", "u", "t", " ", "u", "n", "d", "e", "r", "f", "l", "o", "w" >>,
      << "I", "n", "p", "u", "t", " ", "O", "v", "e", "r", "f", "l", "o", "w" >>,
      << "O", "V", "E", "R", "F", "L", "O", "W" >> }

\* The sample values of a block (every sample of a block has the same value).
Levels == {1, 2}
Block(n, v) == [i \in 1..n |-> v]

RECURSIVE SumSq(_)
SumSq(x) == IF x = <<>> THEN 0 ELSE x[1] * x[1] + SumSq(Tail(x))

\* The integer square root.
ISqrt(q) == CHOOSE r \in 0..q : r * r <= q /\ (r + 1) * (r + 1) > q

\* Line 105: sqrt(mean(x * x) + 1e-12), on whole numbers.
BlockRms(x) == ISqrt(SumSq(x) \div Len(x))

RECURSIVE Pow(_, _)
Pow(b, e) == IF e = 0 THEN 1 ELSE b * Pow(b, e - 1)

\* self._meter_alpha = 0.20 = 1 / MeterAlphaInv.
MeterAlphaInv == 5

\* A plausible slip: the two weights are exchanged (alpha on the old meter).
EmaWeightsSwapped(meter, rms) ==
    [num |-> (MeterAlphaInv - 1) * rms * Pow(MeterAlphaInv, meter.exp) + meter.num,
     exp |-> meter.exp + 1]

\* Line 106: alpha * rms + (1 - alpha) * meter, the meter being the fraction
\* num / MeterAlphaInv^exp.
Ema(meter, rms) ==
    [num |-> rms * Pow(MeterAlphaInv, meter.exp) + (MeterAlphaInv - 1) * meter.num,
     exp |-> meter.exp + 1]

\* Line 108: 20 * log10(meter + 1e-12), kept as the term it is.
Db(meter) == << "20log10", meter.num, meter.exp >>

\* The whole handler _callback(indata, frames, time_info, status) with x the
\* first channel of indata.  An exception raised by _write_ring is not
\* caught: the statements after it are skipped and it leaves _callback.
Callback(status, x) ==
    LET s1 == IF status # <<>>
              THEN [state EXCEPT !.last_error = status,
                                 !.overflows = IF OverflowIn(status) THEN @ + 1 ELSE @]
              ELSE state
        m  == Ema(_meter_rms, BlockRms(x))
        s2 == [s1 EXCEPT !.rms = m, !.db = Db(m)]
        r  == WriteRing(_buf, _w, x)
    IN  /\ _meter_rms' = m
        /\ _buf' = r.buf
        /\ _w' = r.w
        /\ state' = IF r.err = "" THEN [s2 EXCEPT !.last_cb_ts = clock] ELSE s2
        /\ cb_raised' = (cb_raised \/ r.err # "")
        /\ hist' = hist \o x
        /\ read_fresh' = FALSE
        /\ n_cb' = n_cb + 1
        /\ cb_status' = status
        /\ cb_x' = x
        /\ rms_hist' = Append(rms_hist, [sess |-> n_sessions, rms |-> BlockRms(x)])

(***************************************************************************)
(* SpecCb: the audio subsystem calls _callback on a freshly built worker,  *)
(* with any status and any block, one call after another.                  *)
(***************************************************************************)
CbInit ==
    /\ \E dsr \in Rates :
          NeedOf(50, dsr) \in 0..1 /\ Construct(dsr, NoRate, 50)
    /\ Idle

CbCall ==
    /\ n_cb < MaxCallbacks
    /\ \E status \in Statuses, n \in 1..MaxFrames, v \in Levels :
          Callback(status, Block(n, v))
    /\ UNCHANGED << clock, configVars, histVars, sr, _stop, _need, supVars, audio, cb_pc,
                    rdVars, sessVars, infer_out >>

CbNext == CbCall

SpecCb == CbInit /\ [][CbNext]_vars

\* C7: no exception leaves _callback, whatever the block and the capacity.
C7_CallbackNeverRaises == cb_raised = FALSE

\* s holds "overflow" at some place, each letter in either case.
HoldsOverflowAnyCase(s) ==
    \E i \in 0..(Len(s) - Len(Overflow)) :
        \A j \in 1..Len(Overflow) :
            \E k \in 1..Len(LowerLetters) :
                /\ LowerLetters[k] = Overflow[j]
                /\ s[i + j] \in {LowerLetters[k], UpperLetters[k]}

\* C10: a callback adds exactly 1 to overflows if and only if its status is
\* non-empty and holds "overflow" in any letter case; a non-empty status
\* becomes last_error as it is; an empty status changes neither field.
C10_OverflowCounting ==
    [][ n_cb' = n_cb + 1 =>
          /\ state'.overflows = state.overflows +
                (IF cb_status' # <<>> /\ HoldsOverflowAnyCase(cb_status') THEN 1 ELSE 0)
          /\ cb_status' # <<>> => state'.last_error = cb_status'
          /\ cb_status' = <<>> => state'.last_error = state.last_error
      ]_vars

\* C10's case: a status in upper case was counted and copied, after a status
\* that was copied and not counted.
C10_Witness ==
    /\ n_cb = 2
    /\ cb_status = << "O", "V", "E", "R", "F", "L", "O", "W" >>
    /\ state.last_error = cb_status
    /\ state.overflows = 1

(***************************************************************************)
(* Spec: run_loop (the supervisor thread), stop() called from another      *)
(* thread at any moment, and the audio subsystem, which calls _callback    *)
(* while a stream it was asked to start is running and may fail any of     *)
(* the calls made to it.  One action is one statement of run_loop; a       *)
(* _callback invocation and a window read are one step each here (their    *)
(* statement-level interleaving is SpecRace).                              *)
(***************************************************************************)
\* Durations in ticks: time.sleep(0.02), time.sleep(0.5), time.sleep(0.25)
\* and the 1.5 s after which the callback counts as stalled.
PollSleep == 2
ErrorSleep == 50
ReopenSleep == 25
StallLimit == 150

\* threshold=0.85 (in percent) and consecutive_needed=2, the defaults.
Threshold == 85
ConsecutiveNeeded == 2

\* The (label, confidence in percent) pairs the infer collaborator may return.
InferResults == { <<"traffic", 30>>, <<"siren", 90>> }

\* The configurations (device default rate, sr argument, window_sec in ticks).
MainConfigs ==
    { << 1, NoRate, 100 >>,     \* need 1, capacity 4
      << 1, NoRate, 50 >>,      \* need 0, capacity 0
      << 1, NoRate, 300 >>,     \* need 3, capacity 12 (window_sec=3, the default)
      << 8, << 1 >>, 100 >> }   \* sized for rate 1, device default rate 8
\* What the audio subsystem passes to _callback in this specification (every
\* status and block length is drawn in SpecCb).
MainStatuses ==
    { << "i", "n", "p", "u", "t", " ", "o", "v", "e", "r", "f", "l", "o", "w" >> }
MainFrames == {2}
MainLevels == {1}

StallMsg == << "Audio callback stalled. Restarting stream..." >>
StreamErrorMsg(e) == << "Stream error: ", e >>

Init ==
    /\ \E c \in MainConfigs : Construct(c[1], c[2], c[3])
    /\ clock = Epoch
    /\ pc = "outer" /\ stream = "None" /\ last_run = 0 /\ now = 0
    /\ audio = <<>> /\ exc = ""
    /\ cb_pc = "idle" /\ cb_x = <<>> /\ cb_status = <<>>
    /\ rd_pc = "idle" /\ rd_start = 0 /\ rd_cond = FALSE
    /\ hist = <<>> /\ read_fresh = FALSE /\ rd_seen = {} /\ rd_buf = <<>>
    /\ cb_raised = FALSE
    /\ n_cb = 0 /\ n_sessions = 0 /\ started_ts = 0
    /\ stops = 0 /\ closes = 0 /\ orphans = {} /\ infer_out = << "traffic", 0 >>
    /\ left_by = "" /\ slept = 0 /\ prev_read_ts = 0 /\ rms_hist = <<>>

\* A plausible slip: an exception raised inside the try body goes past the
\* handler, straight to the finally block.
TryErrorSkipsHandler == "finally"

\* Where an exception raised inside the try body (lines 139-166) goes:
\* `except Exception as e` (line 168).
OnTryError == "except"

\* A plausible slip: the teardown is not wrapped in its own try/except.
TeardownErrorEscapes == "raised"

\* Where an exception raised by stream.stop() or stream.close() goes:
\* `except Exception: pass` (lines 177-178), then line 180.
OnTeardownError == "backoff"

cbFrame == << cbVars, cb_raised, n_cb, hist, read_fresh >>
supFrame(keep) == << configVars, keep, cbFrame, rdVars >>

\* stop() (lines 61-62), from any thread at any moment.
Stop ==
    /\ pc # "done"
    /\ ~_stop
    /\ _stop' = TRUE
    /\ UNCHANGED << clock, configVars, histVars, rms_hist, sr, state, _need,
                    _meter_rms, ringVars, supVars, audio, cbFrame, rdVars, sessVars,
                    infer_out >>

\* Lines 137-138: while not self._stop: stream = None.
OuterTest ==
    /\ pc = "outer"
    /\ IF _stop
       THEN /\ pc' = "done"
            /\ UNCHANGED << stream, orphans, left_by, slept >>
       ELSE /\ pc' = "open"
            /\ stream' = "None"
            /\ orphans' = IF stream \in {"None", "closed"} THEN orphans
                          ELSE orphans \cup {stream}
            /\ left_by' = "" /\ slept' = 0
    /\ UNCHANGED << clock, configVars, prev_read_ts, rms_hist, stateVars, ringVars,
                    last_run, now, exc, audio, cbFrame, rdVars, n_sessions, started_ts,
                    stops, closes, infer_out >>

\* Line 140: stream = self._open_stream() (lines 113-134).  query_devices
\* may raise; otherwise sr, sr_used and _need are set from the device's
\* default rate, and then InputStream(...) returns a stream or raises.
OpenStream ==
    /\ pc = "open"
    /\ n_sessions < MaxSessions
    /\ \E outcome \in {"query_raises", "stream_raises", "ok"} :
         /\ IF outcome = "query_raises"
            THEN UNCHANGED << sr, state, _need >>
            ELSE /\ sr' = device_default_sr
                 /\ state' = [state EXCEPT !.sr_used = device_default_sr]
                 /\ _need' = NeedOf(window_sec, device_default_sr)
         /\ IF outcome = "ok"
            THEN /\ stream' = "created"
                 /\ n_sessions' = n_sessions + 1
                 /\ stops' = 0 /\ closes' = 0
                 /\ pc' = "start"
                 /\ exc' = exc
                 /\ left_by' = left_by
            ELSE /\ pc' = OnTryError
                 /\ exc' = "PortAudioError"
                 /\ left_by' = "error"
                 /\ UNCHANGED << stream, n_sessions, stops, closes >>
    /\ UNCHANGED << clock, configVars, slept, prev_read_ts, rms_hist, _stop,
                    _meter_rms, ringVars, last_run, now, audio, cbFrame, rdVars,
                    started_ts, orphans, infer_out >>

\* Line 141: stream.start().
StartStream ==
    /\ pc = "start"
    /\ \/ /\ stream' = "active"
          /\ started_ts' = clock
          /\ pc' = "clear"
          /\ exc' = exc
          /\ left_by' = left_by
       \/ /\ pc' = OnTryError
          /\ exc' = "PortAudioError"
          /\ left_by' = "error"
          /\ UNCHANGED << stream, started_ts >>
    /\ UNCHANGED << clock, configVars, slept, prev_read_ts, rms_hist, stateVars,
                    ringVars, last_run, now, audio, cbFrame, rdVars, n_sessions, stops,
                    closes, orphans, infer_out >>

\* A plausible slip: last_run is set once, before the outer loop, and a
\* reopened stream goes on with the previous session's value.
ClearErrorKeepsLastRun ==
    /\ pc = "clear"
    /\ state' = [state EXCEPT !.last_error = <<>>]
    /\ last_run' = last_run
    /\ pc' = "poll"
    /\ UNCHANGED << clock, configVars, histVars, rms_hist, sr, _stop, _need, _meter_rms,
                    ringVars, stream, now, exc, audio, cbFrame, rdVars, sessVars,
                    infer_out >>

\* A plausible slip: the supervisor also clears the heartbeat when it has
\* started a stream.
ClearErrorResetsHeartbeat ==
    /\ pc = "clear"
    /\ state' = [state EXCEPT !.last_error = <<>>, !.last_cb_ts = 0]
    /\ last_run' = 0
    /\ pc' = "poll"
    /\ UNCHANGED << clock, configVars, histVars, rms_hist, sr, _stop, _need, _meter_rms,
                    ringVars, stream, now, exc, audio, cbFrame, rdVars, sessVars,
                    infer_out >>

\* Lines 142-143: self.state.last_error = ""; last_run = 0.0.
ClearError ==
    /\ pc = "clear"
    /\ state' = [state EXCEPT !.last_error = <<>>]
    /\ last_run' = 0
    /\ pc' = "poll"
    /\ UNCHANGED << clock, configVars, histVars, rms_hist, sr, _stop, _need,
                    _meter_rms, ringVars, stream, now, exc, audio, cbFrame, rdVars,
                    sessVars, infer_out >>

\* Lines 145-146: while not self._stop: now = time.time().
PollTest ==
    /\ pc = "poll"
    /\ IF _stop
       THEN pc' = "finally" /\ now' = now /\ left_by' = "stop"
       ELSE pc' = "stall" /\ now' = clock /\ left_by' = left_by
    /\ UNCHANGED << clock, configVars, slept, prev_read_ts, rms_hist, stateVars,
                    ringVars, stream, last_run, exc, audio, cbFrame, rdVars, sessVars,
                    infer_out >>

\* A plausible slip: the stall check does not ask whether a heartbeat was
\* ever recorded.
StallCheckUngated ==
    /\ pc = "stall"
    /\ IF (now - state.last_cb_ts) > StallLimit
       THEN /\ state' = [state EXCEPT !.last_error = StallMsg]
            /\ pc' = "break"
            /\ left_by' = "stall"
       ELSE /\ state' = state
            /\ pc' = "cadence"
            /\ left_by' = left_by
    /\ UNCHANGED << clock, configVars, slept, prev_read_ts, rms_hist, sr, _stop, _need,
                    _meter_rms, ringVars, stream, last_run, now, exc, audio, cbFrame,
                    rdVars, sessVars, infer_out >>

\* Lines 148-150: the stall check; a stall sets last_error and breaks.
StallCheck ==
    /\ pc = "stall"
    /\ IF state.last_cb_ts # 0 /\ (now - state.last_cb_ts) > StallLimit
       THEN /\ state' = [state EXCEPT !.last_error = StallMsg]
            /\ pc' = "break"
            /\ left_by' = "stall"
       ELSE /\ state' = state
            /\ pc' = "cadence"
            /\ left_by' = left_by
    /\ UNCHANGED << clock, configVars, slept, prev_read_ts, rms_hist, sr, _stop, _need,
                    _meter_rms, ringVars, stream, last_run, now, exc, audio, cbFrame,
                    rdVars, sessVars, infer_out >>

\* Line 150: break, which leaves the try block through `finally`.
Break ==
    /\ pc = "break"
    /\ pc' = "finally"
    /\ UNCHANGED << clock, configVars, histVars, rms_hist, stateVars, ringVars, stream,
                    last_run, now, exc, audio, cbFrame, rdVars, sessVars, infer_out >>

\* Lines 152-163: the cadence check.  The window is read; the result is the
\* constant ("traffic", 0.0): the infer collaborator (whose answer for the
\* window would be infer_out) is not called.
Cadence ==
    /\ pc = "cadence"
    /\ IF (now - last_run) >= window_sec
       THEN LET r == ReadLatestWindow(_buf, _w, _need) IN
            IF r.err # ""
            THEN /\ pc' = OnTryError
                 /\ exc' = r.err
                 /\ left_by' = "error"
                 /\ UNCHANGED << audio, read_fresh, state, last_run, infer_out,
                                 prev_read_ts >>
            ELSE /\ audio' = r.win
                 /\ read_fresh' = TRUE
                 /\ \E res \in InferResults : infer_out' = res
                 /\ state' = [state EXCEPT !.consecutive_hits = 0,
                                           !.label = "traffic",
                                           !.conf = 0,
                                           !.triggered = FALSE]
                 /\ last_run' = now
                 /\ prev_read_ts' = now
                 /\ pc' = "sleep"
                 /\ exc' = exc
                 /\ left_by' = left_by
       ELSE /\ pc' = "sleep"
            /\ UNCHANGED << audio, read_fresh, state, last_run, infer_out, exc,
                            left_by, prev_read_ts >>
    /\ UNCHANGED << clock, configVars, slept, rms_hist, sr, _stop, _need, _meter_rms,
                    ringVars, stream, now, cbVars, cb_raised, n_cb, hist, rdVars,
                    sessVars >>

\* Line 166: time.sleep(0.02).  (The collaborator's answer for the window of
\* this iteration is forgotten with it.)
PollTick ==
    /\ pc = "sleep"
    /\ clock + PollSleep <= Epoch + MaxElapsed
    /\ clock' = clock + PollSleep
    /\ pc' = "poll"
    /\ infer_out' = << "traffic", 0 >>
    /\ UNCHANGED << configVars, histVars, rms_hist, stateVars, ringVars, stream,
                    last_run, now, exc, audio, cbFrame, rdVars, sessVars >>

\* Line 169: last_error = f"Stream error: ...".
Except ==
    /\ pc = "except"
    /\ state' = [state EXCEPT !.last_error = StreamErrorMsg(exc)]
    /\ pc' = "except_sleep"
    /\ UNCHANGED << clock, configVars, histVars, rms_hist, sr, _stop, _need,
                    _meter_rms, ringVars, stream, last_run, now, exc, audio, cbFrame,
                    rdVars, sessVars, infer_out >>

\* Line 170: time.sleep(0.5).
ExceptSleep ==
    /\ pc = "except_sleep"
    /\ clock + ErrorSleep <= Epoch + MaxElapsed
    /\ clock' = clock + ErrorSleep
    /\ pc' = "finally"
    /\ exc' = ""
    /\ slept' = slept + ErrorSleep
    /\ UNCHANGED << configVars, left_by, prev_read_ts, rms_hist, stateVars, ringVars,
                    stream, last_run, now, audio, cbFrame, rdVars, sessVars,
                    infer_out >>

\* Lines 173-175: if stream is not None: stream.stop().  A stop() that
\* raises may or may not have stopped the stream.
FinallyStop ==
    /\ pc = "finally"
    /\ IF stream = "None"
       THEN /\ pc' = "backoff"
            /\ UNCHANGED << stream, stops >>
       ELSE /\ stops' = stops + 1
            /\ \/ stream' = "stopped" /\ pc' = "close"
               \/ stream' \in {stream, "stopped"} /\ pc' = OnTeardownError
    /\ UNCHANGED << clock, configVars, histVars, rms_hist, stateVars, ringVars,
                    last_run, now, exc, audio, cbFrame, rdVars, n_sessions, started_ts,
                    closes, orphans, infer_out >>

\* Line 176: stream.close().  A close() that raises may or may not have
\* closed the stream.
FinallyClose ==
    /\ pc = "close"
    /\ closes' = closes + 1
    /\ \/ stream' = "closed" /\ pc' = "backoff"
       \/ stream' \in {stream, "closed"} /\ pc' = OnTeardownError
    /\ UNCHANGED << clock, configVars, histVars, rms_hist, stateVars, ringVars,
                    last_run, now, exc, audio, cbFrame, rdVars, n_sessions, started_ts,
                    stops, orphans, infer_out >>

\* Line 180: if not self._stop.
BackoffTest ==
    /\ pc = "backoff"
    /\ pc' = IF _stop THEN "outer" ELSE "backoff_sleep"
    /\ UNCHANGED << clock, configVars, histVars, rms_hist, stateVars, ringVars, stream,
                    last_run, now, exc, audio, cbFrame, rdVars, sessVars, infer_out >>

\* Line 181: time.sleep(0.25).
BackoffSleep ==
    /\ pc = "backoff_sleep"
    /\ clock + ReopenSleep <= Epoch + MaxElapsed
    /\ clock' = clock + ReopenSleep
    /\ pc' = "outer"
    /\ slept' = slept + ReopenSleep
    /\ UNCHANGED << configVars, left_by, prev_read_ts, rms_hist, stateVars, ringVars,
                    stream, last_run, now, exc, audio, cbFrame, rdVars, sessVars,
                    infer_out >>

\* The audio subsystem calls _callback: the stream run_loop holds, or one it
\* dropped without closing, is running.
StreamCallback ==
    /\ stream = "active" \/ "active" \in orphans
    /\ clock - started_ts <= MaxLive
    /\ n_cb < MaxCallbacks
    /\ \E status \in MainStatuses, n \in MainFrames, v \in MainLevels :
          Callback(status, Block(n, v))
    /\ UNCHANGED << clock, configVars, histVars, sr, _stop, _need, supVars, audio, cb_pc,
                    rdVars, sessVars, infer_out >>

Supervisor ==
    \/ OuterTest \/ OpenStream \/ StartStream \/ ClearError
    \/ PollTest \/ StallCheck \/ Break \/ Cadence \/ PollTick
    \/ Except \/ ExceptSleep
    \/ FinallyStop \/ FinallyClose \/ BackoffTest \/ BackoffSleep

Next == Supervisor \/ Stop \/ StreamCallback

Spec == Init /\ [][Next]_vars

\* run_loop's thread is scheduled again and again, and every call it makes
\* (sleep, open, start, stop, close) returns or raises.
SpecFair == Spec /\ WF_vars(Supervisor)

\* C3: a stall is declared only when the stream that is running has itself
\* gone more than 1.5 s without a callback: never on the strength of the
\* heartbeat a previous stream left behind (every earlier stream having
\* been closed).
C3_OneRestartPerStall ==
    (pc = "break" /\ orphans = {}) => (now - started_ts) > StallLimit

\* C4: when run_loop opens the next stream or returns, the stream it opened
\* before was stopped once and closed once.
C4_StoppedAndClosedOnce ==
    (pc \in {"open", "done"} /\ n_sessions > 0) => (stops = 1 /\ closes = 1)

\* C5: no backoff sleep (0.5 s or 0.25 s) begins once the stop flag is set.
C5_NoBackoffAfterStop ==
    [][ (pc \in {"except_sleep", "backoff_sleep"} /\ clock' # clock) => ~_stop ]_vars

\* The model's bounds stop run_loop here (not the code).
AtBound ==
    \/ pc = "open" /\ n_sessions >= MaxSessions
    \/ pc = "sleep" /\ clock + PollSleep > Epoch + MaxElapsed
    \/ pc = "except_sleep" /\ clock + ErrorSleep > Epoch + MaxElapsed
    \/ pc = "backoff_sleep" /\ clock + ReopenSleep > Epoch + MaxElapsed

\* C6: run_loop returns only with the stop flag set, no exception leaves it,
\* and after every failure (an exception in the try body, a stall, a
\* teardown that raised) it comes to a new open attempt unless the stop flag
\* is set.
C6_ReturnsOnlyOnStop ==
    /\ [](pc = "done" => _stop)
    /\ [](pc # "raised")
    /\ (pc \in {"except", "break", "backoff"}) ~> (pc = "open" \/ _stop \/ AtBound)

\* C6's case: stop() of the stream raised, the teardown swallowed it, and
\* run_loop, not asked to stop, is about to open the next stream.
C6_Witness ==
    /\ pc = "open" /\ ~_stop
    /\ n_sessions = 1 /\ stops = 1 /\ closes = 0
    /\ state.last_error = StreamErrorMsg("ZeroDivisionError")

\* C8: the capacity of the ring buffer is 4 * _need.
C8_CapacityIsFourNeed == Len(_buf) = 4 * _need

\* C9: an evaluation whose confidence is at least the threshold adds 1 to
\* consecutive_hits, any other resets it to 0, and triggered is true exactly
\* when consecutive_hits has reached consecutive_needed.
C9_Hysteresis ==
    [][ (pc = "cadence" /\ pc' = "sleep" /\ (now - last_run) >= window_sec) =>
          /\ state'.consecutive_hits =
                IF infer_out'[2] >= Threshold THEN state.consecutive_hits + 1 ELSE 0
          /\ state'.triggered = (state'.consecutive_hits >= ConsecutiveNeeded)
      ]_vars

\* C11: a worker built with an explicit sample rate keeps it: self.sr (the
\* rate every stream is opened at, line 127) and sr_used equal the sr
\* argument at every moment.
C11_ExplicitRateKept ==
    sr_arg # NoRate => (sr = sr_arg[1] /\ state.sr_used = sr_arg[1])

\* C12: when the cadence check fires and the window is read, label and conf
\* are, after the step, the pair the infer collaborator returns for that
\* window.
C12_LabelConfFromInfer ==
    [][ (pc = "cadence" /\ pc' = "sleep" /\ (now - last_run) >= window_sec) =>
          /\ state'.label = infer_out'[1]
          /\ state'.conf = infer_out'[2]
      ]_vars

\* C13: when run_loop comes back to the outer loop with the stop flag unset,
\* it slept 0.25 s in all if the session ended in a stall, and 0.5 s in all
\* if it ended in an exception from open, start or the poll loop.
C13_FixedBackoff ==
    (pc = "outer" /\ ~_stop) =>
        /\ left_by = "stall" => slept = ReopenSleep
        /\ left_by = "error" => slept = ErrorSleep

\* C13 as amended: 0.25 s in all after a stall, and 0.75 s in all after an
\* exception (0.5 s in the handler, then the 0.25 s before reopening).
C13_BackoffTotals ==
    (pc = "outer" /\ ~_stop) =>
        /\ left_by = "stall" => slept = ReopenSleep
        /\ left_by = "error" => slept = ErrorSleep + ReopenSleep

\* C13's case: the window read of the poll loop raised, and run_loop, not
\* asked to stop, is back at the outer loop after both sleeps.
C13_Witness ==
    /\ pc = "outer" /\ ~_stop
    /\ left_by = "error" /\ n_sessions = 1
    /\ slept = ErrorSleep + ReopenSleep

(***************************************************************************)
(* SpecMeter: Spec with callback blocks of every level, so that the block  *)
(* rms values differ from one callback to the next.                        *)
(***************************************************************************)
MeterCallback ==
    /\ stream = "active" \/ "active" \in orphans
    /\ clock - started_ts <= MaxLive
    /\ n_cb < MaxCallbacks
    /\ \E status \in MainStatuses, n \in MainFrames, v \in Levels :
          Callback(status, Block(n, v))
    /\ UNCHANGED << clock, configVars, histVars, sr, _stop, _need, supVars, audio, cb_pc,
                    rdVars, sessVars, infer_out >>

MeterNext == Supervisor \/ Stop \/ MeterCallback

SpecMeter == Init /\ [][MeterNext]_vars

\* The numerator, over MeterAlphaInv^(k+1), of the closed form
\* sum_{i=0..k} alpha (1 - alpha)^(k-i) r_i, for the terms from index i on
\* (rs[i] being r_(i-1)).
RECURSIVE ClosedFormNum(_, _)
ClosedFormNum(rs, i) ==
    IF i > Len(rs) THEN 0
    ELSE Pow(MeterAlphaInv - 1, Len(rs) - i) * Pow(MeterAlphaInv, i - 1) * rs[i].rms
         + ClosedFormNum(rs, i + 1)

\* C15: the meter and state.rms equal the closed-form exponential moving
\* average of the block rms values of all the callbacks since construction,
\* whichever streams delivered them.
C15_MeterClosedForm ==
    /\ state.rms = [num |-> ClosedFormNum(rms_hist, 1), exp |-> Len(rms_hist)]
    /\ _meter_rms = state.rms

\* C15's case: two blocks of different rms, the first delivered by the first
\* stream and the second by the stream opened after the restart.
C15_Witness ==
    /\ Len(rms_hist) = 2
    /\ rms_hist[1].sess = 1 /\ rms_hist[2].sess = 2
    /\ rms_hist[1].rms = 2 /\ rms_hist[2].rms = 1
    /\ state.rms = [num |-> 13, exp |-> 2]

\* C16: while run_loop is in a backoff sleep (the 0.5 s of the handler or the
\* 0.25 s before reopening), no stream it opened is running.
C16_ClosedBeforeBackoff ==
    pc \in {"except_sleep", "backoff_sleep"} =>
        (stream # "active" /\ "active" \notin orphans)

\* The positions of run_loop inside the poll loop (lines 145-166).
PollLoop == {"poll", "stall", "cadence", "sleep"}

\* C17: while last_cb_ts is still 0, no step of the poll loop declares a
\* stall, and the poll loop is left only with the stop flag set or by an
\* exception.
C17_NoStallWithoutHeartbeat ==
    [][ (pc \in PollLoop /\ state.last_cb_ts = 0) =>
          /\ pc' # "break"
          /\ state'.last_error # StallMsg
          /\ pc' \notin PollLoop => (_stop \/ exc' # "")
      ]_vars

\* C17's case: a stream that never delivered a callback has been polled for
\* longer than the stall limit and the stall check let it pass.
C17_Witness ==
    /\ pc = "cadence" /\ stream = "active"
    /\ state.last_cb_ts = 0 /\ n_cb = 0
    /\ now - started_ts > StallLimit

C19_SingleWriter ==
    [][ /\ n_cb' = n_cb + 1 =>
              /\ state'.label = state.label
              /\ state'.conf = state.conf
              /\ state'.consecutive_hits = state.consecutive_hits
              /\ state'.triggered = state.triggered
              /\ state'.sr_used = state.sr_used
              /\ sr' = sr /\ _need' = _need /\ _stop' = _stop
        /\ n_cb' = n_cb =>
              /\ state'.rms = state.rms
              /\ state'.db = state.db
              /\ state'.last_cb_ts = state.last_cb_ts
              /\ state'.overflows = state.overflows
              /\ _buf' = _buf
              /\ _w' = _w
      ]_vars

\* C19's case: two callbacks have written the meter fields, the heartbeat
\* and the buffer, and the supervisor has then opened a second stream and
\* run a cadence check on it.
C19_Witness ==
    /\ pc = "sleep" /\ n_sessions = 2 /\ prev_read_ts = now
    /\ n_cb = 2 /\ state.overflows = 2
    /\ state.last_cb_ts # 0 /\ state.rms.exp = 2
    /\ _w # 0

\* C20: the cursor is inside the buffer, 0 <= _w < capacity, and the
\* capacity is the one __init__ chose (four windows at the rate of
\* construction).
C20_CursorInRange ==
    LET rate == IF sr_arg = NoRate THEN device_default_sr ELSE sr_arg[1] IN
    /\ 0 <= _w /\ _w < Len(_buf)
    /\ Len(_buf) = 4 * NeedOf(window_sec, rate)

====
